---------------------------- MODULE Spec2Model ----------------------------
(***************************************************************************)
(* A model of coca-zero's zeroizing storage adapter, ZArrayStorage<Z, S>   *)
(* (src/src/lib.rs).  The adapter wraps a storage backend S of the coca    *)
(* crate, forwards the Storage capability calls to it, and overwrites the  *)
(* backend's buffer with zero on zeroize() and on drop.                    *)
(*                                                                         *)
(* Memory is a flat array of bytes.  Every backend owns a region of        *)
(* capacity * size_of::<Z>() bytes; the bytes after a region are memory    *)
(* that belongs to somebody else (the next stack slot, the rest of the     *)
(* arena, the allocator's next block).  The backends and the Vec that uses *)
(* the adapter are code of the coca crate: they are modelled at their      *)
(* boundary, the adapter is modelled from its source.                      *)
(***************************************************************************)
EXTENDS Integers, Sequences, FiniteSets, TLC

\* ------------------------------------------------------------- bounds
\* The largest capacity (in elements) a backend ever has.
MaxCap == 2
\* How many backends (the first and its successive replacements) a run creates.
MaxBackends == 2
\* Bytes of foreign memory that follow every backend's slot.
GuardBytes == 1
\* The element types Z checked, by size_of::<Z>(): a zero-sized type, a byte,
\* a two-byte type.
ElemSizes == {0, 1, 2}
\* What a byte of memory holds before the program writes it.
JunkBytes == {0, 1}
\* The element values the container writes (every byte of the element); 0 is
\* the erased byte.
Vals == {2}

\* ------------------------------------------------------------- layout
MaxElemSize == CHOOSE e \in ElemSizes : \A f \in ElemSizes : f <= e
Stride == MaxCap * MaxElemSize + GuardBytes
Ids == 1..MaxBackends
Addr == 0..(MaxBackends * Stride - 1)
Base(b) == (b - 1) * Stride
Kinds == {"inline", "slice", "arena", "alloc", "realloc"}

VARIABLES
    kind,       \* the backend type S the adapter is instantiated with
    elemSize,   \* size_of::<Z>() of the element type Z
    mem,        \* the bytes of memory
    bstate,     \* per backend: "none", "live" or "released"
    bptr,       \* per backend: its data pointer
    bcap,       \* per backend: its capacity, in elements
    blog,       \* per backend: the erasures and the release it has seen, in order
    astate,     \* per adapter: "none", "live" or "dropped"
    inner,      \* per adapter: field 0, the backend it wraps
    cur,        \* the adapter the container holds (0: none)
    pending,    \* the adapter a successful try_grow returned, not yet installed
    len,        \* the container's logical length
    ret,        \* the last operation and what it returned
    crashed,    \* an out-of-bounds write trapped
    zeroized    \* zeroize() was called on cur and nothing was written since

vars == <<kind, elemSize, mem, bstate, bptr, bcap, blog, astate, inner,
          cur, pending, len, ret, crashed, zeroized>>

\* ------------------------------------------------- the backend (coca)
\* Storage::get_ptr / get_mut_ptr / capacity of the wrapped backend.
S_get_ptr(b) == bptr[b]
S_get_mut_ptr(b) == bptr[b]
S_capacity(b) == bcap[b]
\* Only the reallocating heap backend grows.
Growable == kind = "realloc"
\* OwnedStorage (try_with_capacity) is implemented by the heap backends,
\* DefaultStorage (UNINIT) by the inline and the reallocating ones.
OwnedKinds == {"alloc", "realloc"}
DefaultKinds == {"inline", "realloc"}
\* S::MIN_REPRESENTABLE, a constant of the backend type.
S_MIN_REPRESENTABLE == IF kind = "inline" THEN MaxCap ELSE 0
\* The backend's addressable byte range: capacity elements of elemSize bytes.
Region(b) == { bptr[b] + k : k \in 0..(bcap[b] * elemSize - 1) }
\* The bytes of element i of a buffer that starts at pointer p.
Slot(p, i) == { p + i * elemSize + k : k \in 0..(elemSize - 1) }
\* The first backend slot not yet used (0: none left).
FreshId == IF \E b \in Ids : bstate[b] = "none"
           THEN CHOOSE b \in Ids : bstate[b] = "none" /\ \A c \in Ids : c < b => bstate[c] # "none"
           ELSE 0
\* Option<usize>: -1 stands for None, m >= 0 for Some(m).
MinChoices == {-1} \cup (0..MaxCap)
\* S::try_grow(min_capacity): a fixed backend fails with CapacityError; the
\* reallocating one fails (the allocation failed) or returns a new backend, in
\* a fresh slot, of a capacity that is at least the old one and the minimum.
S_try_grow(b, min) ==
    {[ok |-> FALSE, backend |-> 0, cap |-> 0]} \cup
    IF Growable /\ FreshId # 0
    THEN { [ok |-> TRUE, backend |-> FreshId, cap |-> c] :
             c \in { c \in 1..MaxCap : c >= bcap[b] /\ c >= min /\ (min = -1 => c > bcap[b]) } }
    ELSE {}
\* S::try_with_capacity(min_capacity): fails, or a backend of capacity >= min.
S_try_with_capacity(min) ==
    {[ok |-> FALSE, backend |-> 0, cap |-> 0]} \cup
    { [ok |-> TRUE, backend |-> 1, cap |-> c] : c \in min..MaxCap }
\* S::UNINIT: the inline backend has its N slots, the heap one has none yet.
S_UNINIT == [ok |-> TRUE, backend |-> 1, cap |-> IF kind = "inline" THEN MaxCap ELSE 0]
\* The growth copies the old buffer's elements into the new buffer.
CopyForward(old, new, m) ==
    [x \in Addr |->
        IF x >= bptr[new] /\ x < bptr[new] + bcap[old] * elemSize
        THEN m[bptr[old] + (x - bptr[new])]
        ELSE m[x]]

\* ------------------------------------------------- the adapter (lib.rs)
\* From<S>: Self(s, PhantomData).
ZFrom(b) == b
\* Storage::get_ptr.
get_ptr(a) == S_get_ptr(inner[a])
\* Storage::get_mut_ptr.
get_mut_ptr(a) == S_get_mut_ptr(inner[a])
\* A capacity that counts bytes instead of elements.
capacity_in_bytes(a) == S_capacity(inner[a]) * elemSize
\* Storage::capacity.
capacity(a) == S_capacity(inner[a])
\* Storage::MIN_REPRESENTABLE.
MIN_REPRESENTABLE == S_MIN_REPRESENTABLE
\* A try_grow that wraps the backend it was called on instead of the new one.
try_grow_aliasing(a, r) ==
    IF r.ok THEN [ok |-> TRUE, wraps |-> inner[a]] ELSE [ok |-> FALSE, wraps |-> 0]
\* A try_grow that turns the backend's error into a wrapper of the old backend.
try_grow_swallowing(a, r) ==
    IF r.ok THEN [ok |-> TRUE, wraps |-> r.backend] ELSE [ok |-> TRUE, wraps |-> inner[a]]
\* Storage::try_grow: Ok(Self(self.0.try_grow::<I>(min_capacity)?, PhantomData)).
\* r is what the backend's try_grow returned; wraps is field 0 of the new Self.
try_grow(a, r) ==
    IF r.ok THEN [ok |-> TRUE, wraps |-> r.backend] ELSE [ok |-> FALSE, wraps |-> 0]
\* OwnedStorage::try_with_capacity: Ok(S::try_with_capacity(min_capacity)?.into()).
try_with_capacity(r) ==
    IF r.ok THEN [ok |-> TRUE, wraps |-> ZFrom(r.backend)] ELSE [ok |-> FALSE, wraps |-> 0]
\* DefaultStorage::UNINIT: Self(S::UNINIT, PhantomData).
UNINIT == [ok |-> TRUE, wraps |-> S_UNINIT.backend]
\* Zeroize::zeroize: slice::from_raw_parts_mut(self.0.get_mut_ptr(),
\* self.0.capacity()) is a slice of u8 (get_mut_ptr returns *mut u8), so its
\* length is capacity() BYTES; zeroize() writes 0 to each of them.
ZeroizeWrites(a) == { get_mut_ptr(a) + k : k \in 0..(capacity(a) - 1) }
ZeroizeMem(a) == [x \in Addr |-> IF x \in ZeroizeWrites(a) THEN 0 ELSE mem[x]]
\* A write outside the backend's region is undefined behaviour: the bytes
\* are written, or the write traps.
ZeroizeOutcomes(a) ==
    IF ZeroizeWrites(a) \subseteq Region(inner[a]) THEN {"write"} ELSE {"write", "trap"}

Init ==
    /\ kind \in Kinds
    /\ elemSize \in ElemSizes
    /\ \E j \in JunkBytes : mem = [x \in Addr |-> j]
    /\ bstate = [b \in Ids |-> "none"]
    /\ bptr = [b \in Ids |-> Base(b)]
    /\ bcap = [b \in Ids |-> 0]
    /\ blog = [b \in Ids |-> << >>]
    /\ astate = [a \in Ids |-> "none"]
    /\ inner = [a \in Ids |-> 0]
    /\ cur = 0
    /\ pending = 0
    /\ len = 0
    /\ ret = [op |-> "init", ok |-> TRUE, val |-> 0]
    /\ crashed = FALSE
    /\ zeroized = FALSE

Unconstructed == cur = 0 /\ \A b \in Ids : bstate[b] = "none"
Usable == ~crashed /\ cur # 0 /\ astate[cur] = "live"
\* The first adapter slot not yet used (0: none left).
FreshAdapter ==
    IF \E a \in Ids : astate[a] = "none"
    THEN CHOOSE a \in Ids : astate[a] = "none" /\ \A c \in Ids : c < a => astate[c] # "none"
    ELSE 0
Result(op, ok, val) == [op |-> op, ok |-> ok, val |-> val]

\* The backend r (a successful result of the backend) comes to exist.
BackendCreated(r) ==
    /\ bstate' = [bstate EXCEPT ![r.backend] = "live"]
    /\ bcap' = [bcap EXCEPT ![r.backend] = r.cap]
\* The adapter a comes to exist, wrapping backend b.
AdapterCreated(a, b) ==
    /\ astate' = [astate EXCEPT ![a] = "live"]
    /\ inner' = [inner EXCEPT ![a] = b]

\* ZArrayStorage::from(s): wraps a backend the caller built.
From ==
    /\ Unconstructed /\ ~crashed
    /\ \E c \in 0..MaxCap :
        /\ (kind = "inline" => c = MaxCap)
        /\ BackendCreated([ok |-> TRUE, backend |-> 1, cap |-> c])
    /\ AdapterCreated(1, ZFrom(1))
    /\ cur' = 1
    /\ ret' = Result("from", TRUE, 0)
    /\ UNCHANGED <<kind, elemSize, mem, bptr, blog, pending, len, crashed, zeroized>>

\* ZArrayStorage::try_with_capacity(min_capacity).
TryWithCapacity(min) ==
    /\ Unconstructed /\ ~crashed
    /\ kind \in OwnedKinds
    /\ \E r \in S_try_with_capacity(min) :
        LET z == try_with_capacity(r) IN
        /\ IF r.ok THEN BackendCreated(r) ELSE UNCHANGED <<bstate, bcap>>
        /\ IF z.ok
           THEN AdapterCreated(1, z.wraps) /\ cur' = 1
           ELSE UNCHANGED <<astate, inner, cur>>
        /\ ret' = Result("try_with_capacity", z.ok, 0)
    /\ UNCHANGED <<kind, elemSize, mem, bptr, blog, pending, len, crashed, zeroized>>

\* ZArrayStorage::UNINIT.
Uninit ==
    /\ Unconstructed /\ ~crashed
    /\ kind \in DefaultKinds
    /\ BackendCreated(S_UNINIT)
    /\ AdapterCreated(1, UNINIT.wraps)
    /\ cur' = 1
    /\ ret' = Result("UNINIT", TRUE, 0)
    /\ UNCHANGED <<kind, elemSize, mem, bptr, blog, pending, len, crashed, zeroized>>

\* The capability calls: each only returns a value.
GetPtr ==
    /\ Usable
    /\ ret' = Result("get_ptr", TRUE, get_ptr(cur))
    /\ UNCHANGED <<kind, elemSize, mem, bstate, bptr, bcap, blog, astate, inner,
                   cur, pending, len, crashed, zeroized>>

GetMutPtr ==
    /\ Usable
    /\ ret' = Result("get_mut_ptr", TRUE, get_mut_ptr(cur))
    /\ UNCHANGED <<kind, elemSize, mem, bstate, bptr, bcap, blog, astate, inner,
                   cur, pending, len, crashed, zeroized>>

Capacity ==
    /\ Usable
    /\ ret' = Result("capacity", TRUE, capacity(cur))
    /\ UNCHANGED <<kind, elemSize, mem, bstate, bptr, bcap, blog, astate, inner,
                   cur, pending, len, crashed, zeroized>>

MinRepresentable ==
    /\ Usable
    /\ ret' = Result("MIN_REPRESENTABLE", TRUE, MIN_REPRESENTABLE)
    /\ UNCHANGED <<kind, elemSize, mem, bstate, bptr, bcap, blog, astate, inner,
                   cur, pending, len, crashed, zeroized>>

\* ZArrayStorage::try_grow(min_capacity), called on the adapter the container
\* holds.  It takes &self: on success the caller holds the old adapter and the
\* new one, and the old one lives until the caller drops it.  m0 is the memory
\* as the adapter leaves it when it delegates to the backend.
GrowStep(min, m0) ==
    /\ Usable /\ pending = 0
    /\ \E r \in S_try_grow(inner[cur], min) :
        LET z == try_grow(cur, r) IN
        /\ IF r.ok
           THEN BackendCreated(r) /\ mem' = CopyForward(inner[cur], r.backend, m0)
           ELSE UNCHANGED <<bstate, bcap>> /\ mem' = m0
        /\ IF z.ok
           THEN /\ FreshAdapter # 0
                /\ AdapterCreated(FreshAdapter, z.wraps)
                /\ pending' = FreshAdapter
           ELSE UNCHANGED <<astate, inner, pending>>
        /\ ret' = Result("try_grow", z.ok, 0)
    /\ UNCHANGED <<kind, elemSize, bptr, blog, cur, len, crashed, zeroized>>

\* A try_grow that erases the old buffer before it asks the backend to grow.
TryGrowErasingFirst(min) == GrowStep(min, ZeroizeMem(cur))
TryGrow(min) == GrowStep(min, mem)

\* Vec::push below capacity: writes the element after the last one.
Push(v) ==
    /\ Usable /\ pending = 0
    /\ len < capacity(cur)
    /\ mem' = [x \in Addr |-> IF x \in Slot(get_mut_ptr(cur), len) THEN v ELSE mem[x]]
    /\ len' = len + 1
    /\ zeroized' = FALSE
    /\ UNCHANGED <<ret, kind, elemSize, bstate, bptr, bcap, blog, astate, inner,
                   cur, pending, crashed>>

\* Vec::pop: the length goes down, the bytes stay.
Pop ==
    /\ Usable /\ pending = 0
    /\ len > 0
    /\ len' = len - 1
    /\ UNCHANGED <<ret, kind, elemSize, mem, bstate, bptr, bcap, blog, astate, inner,
                   cur, pending, crashed, zeroized>>

\* vec[i] = v.
IndexWrite(i, v) ==
    /\ Usable /\ pending = 0
    /\ i < len
    /\ mem' = [x \in Addr |-> IF x \in Slot(get_mut_ptr(cur), i) THEN v ELSE mem[x]]
    /\ zeroized' = FALSE
    /\ UNCHANGED <<ret, kind, elemSize, bstate, bptr, bcap, blog, astate, inner,
                   cur, pending, len, crashed>>

\* zeroize() on adapter a, with the outcome o of its writes.
ZeroizeEffect(a, o) ==
    /\ mem' = IF o = "write" THEN ZeroizeMem(a) ELSE mem
    /\ crashed' = (o = "trap")

\* The explicit erase: Zeroize::zeroize on the adapter.
Zeroize ==
    /\ Usable /\ pending = 0
    /\ \E o \in ZeroizeOutcomes(cur) : ZeroizeEffect(cur, o)
    /\ zeroized' = TRUE
    /\ UNCHANGED <<ret, kind, elemSize, bstate, bptr, bcap, blog, astate, inner,
                   cur, pending, len>>

\* Drop of adapter a: Drop::drop runs self.zeroize(), then field 0 (the
\* backend) is dropped, which releases it.  A trapped write ends the program
\* before the release.
DropAdapter(a) ==
    \E o \in ZeroizeOutcomes(a) :
        /\ ZeroizeEffect(a, o)
        /\ astate' = [astate EXCEPT ![a] = "dropped"]
        /\ IF o = "write"
           THEN /\ blog' = [blog EXCEPT ![inner[a]] = @ \o <<"zeroize", "release">>]
                /\ bstate' = [bstate EXCEPT ![inner[a]] = "released"]
           ELSE /\ blog' = [blog EXCEPT ![inner[a]] = Append(@, "zeroize")]
                /\ UNCHANGED bstate

\* The growth call site: the caller installs the new adapter, which drops the
\* old one.
DropOld ==
    /\ Usable /\ pending # 0
    /\ DropAdapter(cur)
    /\ cur' = pending
    /\ pending' = 0
    /\ zeroized' = FALSE
    /\ ret' = Result("drop_old", TRUE, 0)
    /\ UNCHANGED <<kind, elemSize, bptr, bcap, inner, len>>

\* The container (and with it the adapter it holds) goes out of scope.
DropVec ==
    /\ Usable /\ pending = 0
    /\ DropAdapter(cur)
    /\ ret' = Result("drop", TRUE, 0)
    /\ UNCHANGED <<kind, elemSize, bptr, bcap, inner, cur, pending, len, zeroized>>

Next ==
    \/ From
    \/ \E min \in 0..MaxCap : TryWithCapacity(min)
    \/ Uninit
    \/ GetPtr
    \/ GetMutPtr
    \/ Capacity
    \/ MinRepresentable
    \/ \E min \in MinChoices : TryGrow(min)
    \/ \E v \in Vals : Push(v)
    \/ Pop
    \/ \E i \in 0..(MaxCap - 1), v \in Vals : IndexWrite(i, v)
    \/ Zeroize
    \/ DropOld
    \/ DropVec

Spec == Init /\ [][Next]_vars

\* ------------------------------------------------------------- claims
AllZero(b) == \A x \in Region(b) : mem[x] = 0
Live == { a \in Ids : astate[a] = "live" }
FixedKinds == Kinds \ {"realloc"}
TryGrowStep == \E min \in MinChoices : TryGrow(min)
QueryStep == GetPtr \/ GetMutPtr \/ Capacity \/ MinRepresentable
ConstructStep == From \/ Uninit \/ \E min \in 0..MaxCap : TryWithCapacity(min)

\* C1: after an explicit erase every byte of [get_mut_ptr(), get_mut_ptr() +
\* capacity * element size) reads as zero, for every element size.
C1_EraseCoversCapacity ==
    (Usable /\ zeroized) => AllZero(inner[cur])

\* C2: every adapter is erased exactly once when its lifetime ends, before its
\* backend is released, and the buffer it wrapped (the caller's, for the
\* borrowed slice) then reads all zero.
C2_DropErasesOnceBeforeRelease ==
    \A a \in Ids :
        (astate[a] = "dropped" /\ ~crashed) =>
            /\ blog[inner[a]] = <<"zeroize", "release">>
            /\ AllZero(inner[a])

\* C3: a growth from C1 to C2 >= C1 returns a backend whose first C1 elements
\* are the old contents, and once the old adapter has been released the old
\* backend's whole C1-element byte range is zero.
C3_GrowthPreservesThenClears ==
    /\ pending # 0 =>
        /\ bcap[inner[pending]] >= bcap[inner[cur]]
        /\ \A k \in 0..(bcap[inner[cur]] * elemSize - 1) :
              mem[bptr[inner[pending]] + k] = mem[bptr[inner[cur]] + k]
    /\ (ret.op = "drop_old" /\ ~crashed) =>
        \A b \in Ids : bstate[b] = "released" => AllZero(b)

\* C4: get_ptr, get_mut_ptr, capacity and MIN_REPRESENTABLE return what the
\* wrapped backend holds.
C4_PassThrough ==
    /\ ret.op \in {"get_ptr", "get_mut_ptr"} => ret.val = bptr[inner[cur]]
    /\ ret.op = "capacity" => ret.val = bcap[inner[cur]]
    /\ ret.op = "MIN_REPRESENTABLE" => ret.val = S_MIN_REPRESENTABLE
C4_Witness ==
    /\ ret.op = "capacity" /\ ret.val = MaxCap /\ elemSize = 2
    /\ kind = "slice" /\ len = 1

\* C5: on a fixed backend try_grow returns the capacity error, as a result and
\* without a crash, and leaves length, capacity, pointer and contents as they
\* were.
C5_FixedGrowthFails ==
    [][(kind \in FixedKinds /\ TryGrowStep) =>
          /\ ret' = Result("try_grow", FALSE, 0)
          /\ UNCHANGED <<mem, len, bstate, bptr, bcap, astate, inner, cur, pending, crashed>>]_vars
C5_Witness ==
    /\ kind = "inline" /\ ret = Result("try_grow", FALSE, 0)
    /\ len = MaxCap /\ bcap[inner[cur]] = MaxCap /\ elemSize > 0
    /\ \A x \in Region(inner[cur]) : mem[x] \in Vals

\* C6: a failed try_grow returns the error, creates no adapter, erases nothing
\* and leaves the old backend as it was; the old adapter is still erased over
\* its full capacity when it is destroyed afterwards.
C6_FailedGrowthLeavesOldIntact ==
    [][/\ (TryGrowStep /\ ~ret'.ok) =>
            UNCHANGED <<mem, len, bstate, bptr, bcap, blog, astate, inner, cur, pending>>
       /\ (ret = Result("try_grow", FALSE, 0) /\ DropVec /\ ~crashed') =>
            \A x \in Region(inner[cur]) : mem'[x] = 0]_vars

\* C7: an explicit erase followed by the drop does not crash, releases the
\* backend once and leaves the buffer all zero; a second erase with no write
\* in between changes nothing.
C7_EraseThenDrop ==
    [][/\ (zeroized /\ DropVec) =>
            /\ ~crashed'
            /\ blog'[inner[cur]] = <<"zeroize", "release">>
            /\ \A x \in Region(inner[cur]) : mem'[x] = 0
       /\ (zeroized /\ Zeroize) => UNCHANGED <<mem, bptr, bcap>>]_vars

\* C8: an erase, explicit or on drop, changes no byte outside
\* [get_mut_ptr(), get_mut_ptr() + capacity * element size).
C8_EraseStaysInRange ==
    [][(Zeroize \/ DropVec \/ DropOld) =>
          \A x \in Addr \ Region(inner[cur]) : mem'[x] = mem[x]]_vars

\* C9: wrapping, the capability calls and try_grow leave every byte of the
\* wrapped buffer unchanged, and so does pop: the slots beyond the logical
\* length keep their values until an erase or the drop.
C9_OnlyEraseWrites ==
    [][/\ (ConstructStep \/ QueryStep \/ Pop) => mem' = mem
       /\ TryGrowStep => \A x \in Region(inner[cur]) : mem'[x] = mem[x]]_vars
C9_Witness ==
    /\ ret.op = "try_grow" /\ ret.ok /\ pending # 0
    /\ len < bcap[inner[cur]] /\ elemSize > 0
    /\ \A x \in Region(inner[cur]) : mem[x] \in Vals

\* C10 as stated: after a successful try_grow no state has the old adapter and
\* its replacement both live.
C10_NeverTwoLive == Cardinality(Live) <= 1
\* C10 as amended: try_grow borrows the old adapter, so the old adapter and
\* its replacement are both live from the successful try_grow until the caller
\* drops the old one; the two wrap different backends, a live adapter never
\* wraps a released backend, and once the old adapter has been dropped only
\* the replacement is live.
C10_OldLivesUntilDropped ==
    /\ \A a \in Live : bstate[inner[a]] = "live"
    /\ \A a, b \in Live : a # b => inner[a] # inner[b]
    /\ pending # 0 => Live = {cur, pending} /\ cur # pending
    /\ pending = 0 => Live \subseteq {cur}
C10_Witness ==
    /\ pending # 0 /\ astate[cur] = "live" /\ astate[pending] = "live"
    /\ bstate[inner[cur]] = "live" /\ bstate[inner[pending]] = "live"
=============================================================================
